---- MODULE Spec2Model ----
(***************************************************************************)
(* A model of the OpenSIPS CLI shell (opensipscli/cli.py): the module      *)
(* registry and its loader, the dispatcher, the completion engine, the     *)
(* history manager, the instance switch and the interactive / one-shot     *)
(* loop.  Python strings are TLA+ strings, read character by character.    *)
(***************************************************************************)
EXTENDS Integers, Sequences, FiniteSets, TLC

VARIABLES
    \* options and environment, fixed during a run
    execute,                \* options.execute
    command,                \* options.command, a tuple of strings
    debug,                  \* options.debug
    options_instance,       \* options.instance
    cfg_tab,                \* the configuration: instance -> settings
    listing,                \* what os.listdir returns for the plugin directory
    units,                  \* what importing each candidate gives
    cwd_files,              \* names for which os.path.isfile(name) is true
    skip_modules,           \* cfg.get('skip_modules')
    \* the shell and the process state it touches
    modules,                \* OpenSIPSCLIShell.modules, the registry
    current_instance,       \* self.current_instance
    cfg_current,            \* cfg.current_instance (live)
    prompt, intro,          \* self.prompt, self.intro
    sys_path,               \* sys.path
    modules_dir_inserted,   \* self.modules_dir_inserted
    handler,                \* self.handler: serial of the comm.initialize() call
    comm_count,             \* number of comm.initialize() calls so far
    logger_level,           \* the level the logger is set to
    history,                \* readline's in-memory history buffer
    history_length,         \* readline's history length (-1: unset)
    files,                  \* history files: path -> [exists, lines]
    atexit_hooks,           \* number of times history_write was given to atexit
    lastcmd,                \* cmd.Cmd.lastcmd
    completion_matches,     \* self.completion_matches
    \* control and observation
    pc,                     \* where the process is
    ret,                    \* what cmdloop returned
    nlines,                 \* number of lines read so far
    events,                 \* what the last handler did, in order
    exc,                    \* the exception the last handler raised, "" if none
    last,                   \* the input of the last handler and what it answered
    saved                   \* the last flush of the history at a process end

envvars == <<execute, command, debug, options_instance, cfg_tab, listing, units,
             cwd_files, skip_modules>>
shellvars == <<modules, current_instance, cfg_current, prompt, intro, sys_path,
               modules_dir_inserted, handler, comm_count, logger_level, history,
               history_length, files, atexit_hooks, lastcmd, completion_matches>>
vars == <<envvars, shellvars, pc, ret, nlines, events, exc, last, saved>>

-----------------------------------------------------------------------------
(* Bounds of the model *)

MaxLines == 2        \* lines read in one run of the interactive loop
MaxHistSize == 2     \* largest configured history_file_size
MaxFiles == 2        \* largest number of entries of the plugin directory
MaxCompState == 3    \* largest index of a completion request

-----------------------------------------------------------------------------
(* Python values *)

None == "None"
PyNone == [t |-> "None", v |-> 0]
PyInt(n) == [t |-> "int", v |-> n]
PyList(l) == [t |-> "list", v |-> l]
PyStr(s) == [t |-> "str", v |-> s]


\* s[i] of a string, "" out of range
Ch(s, i) == IF 1 <= i /\ i <= Len(s) THEN SubSeq(s, i, i) ELSE ""
StartsWith(s, t) == Len(t) <= Len(s) /\ SubSeq(s, 1, Len(t)) = t
EndsWith(s, t) == Len(t) <= Len(s) /\ SubSeq(s, Len(s) - Len(t) + 1, Len(s)) = t

RECURSIVE LStrip(_)
LStrip(s) == IF Len(s) > 0 /\ Ch(s, 1) = " " THEN LStrip(SubSeq(s, 2, Len(s))) ELSE s
RECURSIVE RStrip(_)
RStrip(s) == IF Len(s) > 0 /\ Ch(s, Len(s)) = " " THEN RStrip(SubSeq(s, 1, Len(s) - 1)) ELSE s
Strip(s) == LStrip(RStrip(s))

Range(seq) == {seq[i] : i \in 1..Len(seq)}
\* list.remove(x): the first occurrence goes
RemoveFirst(seq, x) ==
    LET i == CHOOSE k \in 1..Len(seq) : seq[k] = x /\ \A j \in 1..(k - 1) : seq[j] # x
    IN  SubSeq(seq, 1, i - 1) \o SubSeq(seq, i + 1, Len(seq))
\* the last n elements
LastN(seq, n) == IF Len(seq) <= n THEN seq ELSE SubSeq(seq, Len(seq) - n + 1, Len(seq))

-----------------------------------------------------------------------------
(* Line parsing: cmd.Cmd.parseline and shlex.split, as the dispatcher uses  *)
(* them (cli.py:203 reaches parseline through cmd.Cmd.onecmd).             *)

IdentChars ==
    {"a","b","c","d","e","f","g","h","i","j","k","l","m","n","o","p","q","r","s",
     "t","u","v","w","x","y","z","A","B","C","D","E","F","G","H","I","J","K","L",
     "M","N","O","P","Q","R","S","T","U","V","W","X","Y","Z","0","1","2","3","4",
     "5","6","7","8","9","_"}

\* length of the longest prefix of s made of identifier characters
RECURSIVE IdentRun(_, _)
IdentRun(s, i) == IF i < Len(s) /\ Ch(s, i + 1) \in IdentChars THEN IdentRun(s, i + 1) ELSE i

\* cmd.Cmd.parseline: (cmd, arg, line); cmd is None for an empty line and for a
\* line that starts with '!' (the shell defines no do_shell)
parseline(line0) ==
    LET line == Strip(line0) IN
    IF line = "" THEN [cmd |-> None, arg |-> None, line |-> line]
    ELSE IF Ch(line, 1) = "!" THEN [cmd |-> None, arg |-> None, line |-> line]
    ELSE LET l2 == IF Ch(line, 1) = "?" THEN "help " \o SubSeq(line, 2, Len(line)) ELSE line
             i == IdentRun(l2, 0)
         IN  [cmd |-> SubSeq(l2, 1, i), arg |-> Strip(SubSeq(l2, i + 1, Len(l2))), line |-> l2]

\* shlex.split(line) in POSIX mode, for lines made of word characters, blanks and
\* double quotes: [ok, toks]; ok is FALSE for "No closing quotation" (ValueError)
RECURSIVE Lex(_, _, _, _, _, _)
Lex(s, i, cur, inTok, inQuote, toks) ==
    IF i > Len(s) THEN
        IF inQuote THEN [ok |-> FALSE, toks |-> toks]
        ELSE [ok |-> TRUE, toks |-> IF inTok THEN Append(toks, cur) ELSE toks]
    ELSE LET c == Ch(s, i) IN
        IF c = "\"" THEN Lex(s, i + 1, cur, TRUE, ~inQuote, toks)
        ELSE IF c = " " /\ ~inQuote THEN
            IF inTok THEN Lex(s, i + 1, "", FALSE, FALSE, Append(toks, cur))
            ELSE Lex(s, i + 1, "", FALSE, FALSE, toks)
        ELSE Lex(s, i + 1, cur \o c, TRUE, inQuote, toks)

shlex_split(line) == Lex(line, 1, "", FALSE, FALSE, <<>>)

\* str.split(): the whitespace-delimited words of a line (no quoting)
RECURSIVE Words(_, _, _, _)
Words(s, i, cur, toks) ==
    IF i > Len(s) THEN (IF cur = "" THEN toks ELSE Append(toks, cur))
    ELSE IF Ch(s, i) = " " THEN Words(s, i + 1, "", IF cur = "" THEN toks ELSE Append(toks, cur))
    ELSE Words(s, i + 1, cur \o Ch(s, i), toks)

str_split(line) == Words(line, 1, "", <<>>)

-----------------------------------------------------------------------------
(* The configuration collaborator (opensipscli.config.cfg) and the defaults *)

DEFAULT_SECTION == "default"
Instances == {"default", "B"}
ModuleDirs == {"d1", "d2", "nodir"}
ExistingDirs == {"d1", "d2"}          \* os.path.exists(modules_dir)
HistoryFiles == {"f1", "f2"}

has_instance(name) == name \in Instances
\* cfg.get(key) answers for the live current instance of the configuration
cfg_get(s, key) ==
    CASE key = "prompt_name" -> "cli-" \o s.cfg_current
      [] key = "prompt_intro" -> "Welcome to " \o s.cfg_current
      [] key = "log_level" -> IF s.cfg_current = DEFAULT_SECTION THEN "INFO" ELSE "WARNING"
      [] OTHER -> cfg_tab[s.cfg_current][key]

Event(e, a) == [e |-> e, a |-> a]
Emit(s, e, a) == [s EXCEPT !.events = Append(@, Event(e, a))]
Raise(s, x) == [s EXCEPT !.exc = x]

\* the state the handlers read and write, as one record
St == [modules |-> modules, current_instance |-> current_instance,
       cfg_current |-> cfg_current, prompt |-> prompt, intro |-> intro,
       sys_path |-> sys_path, modules_dir_inserted |-> modules_dir_inserted,
       handler |-> handler, comm_count |-> comm_count, logger_level |-> logger_level,
       history |-> history, history_length |-> history_length, files |-> files,
       atexit_hooks |-> atexit_hooks, lastcmd |-> lastcmd,
       completion_matches |-> completion_matches,
       events |-> <<>>, exc |-> "", stop |-> FALSE, result |-> PyNone]

Install(s) ==
    /\ modules' = s.modules
    /\ current_instance' = s.current_instance
    /\ cfg_current' = s.cfg_current
    /\ prompt' = s.prompt
    /\ intro' = s.intro
    /\ sys_path' = s.sys_path
    /\ modules_dir_inserted' = s.modules_dir_inserted
    /\ handler' = s.handler
    /\ comm_count' = s.comm_count
    /\ logger_level' = s.logger_level
    /\ history' = s.history
    /\ history_length' = s.history_length
    /\ files' = s.files
    /\ atexit_hooks' = s.atexit_hooks
    /\ lastcmd' = s.lastcmd
    /\ completion_matches' = s.completion_matches
    /\ events' = s.events
    /\ exc' = s.exc

-----------------------------------------------------------------------------
(* History manager and instance switch *)

registered_atexit == FALSE      \* the class attribute; no code assigns it

update_logger(s) ==
    [s EXCEPT !.logger_level = IF debug THEN "DEBUG" ELSE cfg_get(s, "log_level")]

\* history_write with the cut to history_length left out
history_write_untruncated(s) ==
    IF s.exc # "" THEN s ELSE
    LET history_file == cfg_get(s, "history_file")
    IN  Emit([s EXCEPT !.files[history_file] = [exists |-> TRUE, lines |-> s.history]],
             "history_write", history_file)

\* readline.write_history_file: the whole buffer replaces the file, which is then
\* cut to the newest history_length lines when a length is set
history_write(s) ==
    IF s.exc # "" THEN s ELSE
    LET history_file == cfg_get(s, "history_file")
        kept == IF s.history_length >= 0 THEN LastN(s.history, s.history_length)
                ELSE s.history
    IN  Emit([s EXCEPT !.files[history_file] = [exists |-> TRUE, lines |-> kept]],
             "history_write", history_file)

\* readline.read_history_file appends the file's lines to the buffer;
\* readline.set_history_length only records the length
preloop(s) ==
    IF s.exc # "" THEN s ELSE
    LET history_file == cfg_get(s, "history_file")
        s1 == IF s.files[history_file].exists
              THEN Emit([s EXCEPT !.history = @ \o s.files[history_file].lines],
                        "read_history", history_file)
              ELSE s
        s2 == [s1 EXCEPT !.history_length = cfg_get(s, "history_file_size")]
    IN  IF ~registered_atexit
        THEN Emit([s2 EXCEPT !.atexit_hooks = @ + 1], "atexit_register", "history_write")
        ELSE s2

\* clear_instance with the removal from sys.path left out
clear_instance_keep_path(s) ==
    IF s.exc # "" THEN s ELSE history_write(s)

clear_instance(s) ==
    IF s.exc # "" THEN s ELSE
    LET s1 == history_write(s) IN
    IF s1.modules_dir_inserted # None /\ s1.modules_dir_inserted # "" THEN
        IF s1.modules_dir_inserted \in Range(s1.sys_path)
        THEN Emit([s1 EXCEPT !.sys_path = RemoveFirst(@, s1.modules_dir_inserted),
                             !.modules_dir_inserted = None],
                  "path_remove", s1.modules_dir_inserted)
        ELSE Raise(s1, "ValueError")
    ELSE s1

\* update_instance without the test that the directory is in sys.path already
update_instance_always_insert(s, instance) ==
    IF s.exc # "" THEN s ELSE
    LET s1 == Emit(update_logger([s EXCEPT !.current_instance = instance]),
                   "set_level", IF debug THEN "DEBUG" ELSE cfg_get(s, "log_level"))
        s2 == Emit([s1 EXCEPT !.intro = cfg_get(s, "prompt_intro"),
                              !.prompt = "(" \o cfg_get(s, "prompt_name") \o "): "],
                   "prompt", cfg_get(s, "prompt_name"))
        modules_dir == cfg_get(s, "modules_dir")
        s3 == IF modules_dir \notin ExistingDirs
              THEN Emit(s2, "warning", "Modules dir does not exist")
              ELSE Emit([s2 EXCEPT !.sys_path = <<modules_dir>> \o @,
                                   !.modules_dir_inserted = modules_dir],
                        "path_insert", modules_dir)
    IN  Emit([s3 EXCEPT !.comm_count = @ + 1, !.handler = s3.comm_count + 1],
             "comm_initialize", "")

update_instance(s, instance) ==
    IF s.exc # "" THEN s ELSE
    LET s1 == Emit(update_logger([s EXCEPT !.current_instance = instance]),
                   "set_level", IF debug THEN "DEBUG" ELSE cfg_get(s, "log_level"))
        s2 == Emit([s1 EXCEPT !.intro = cfg_get(s, "prompt_intro"),
                              !.prompt = "(" \o cfg_get(s, "prompt_name") \o "): "],
                   "prompt", cfg_get(s, "prompt_name"))
        modules_dir == cfg_get(s, "modules_dir")
        s3 == IF modules_dir \notin ExistingDirs
              THEN Emit(s2, "warning", "Modules dir does not exist")
              ELSE IF modules_dir \notin Range(s2.sys_path)
              THEN Emit([s2 EXCEPT !.sys_path = <<modules_dir>> \o @,
                                   !.modules_dir_inserted = modules_dir],
                        "path_insert", modules_dir)
              ELSE s2
    IN  Emit([s3 EXCEPT !.comm_count = @ + 1, !.handler = s3.comm_count + 1],
             "comm_initialize", "")

\* postcmd emptying the registry of its plugin entries on a switch
postcmd_drop_plugins(s) ==
    IF s.exc # "" THEN s ELSE
    IF s.current_instance # s.cfg_current
    THEN LET s1 == preloop(update_instance(clear_instance(s), s.cfg_current))
             IsBuiltin(d) == d.isNone
         IN  [s1 EXCEPT !.modules = SelectSeq(@, IsBuiltin)]
    ELSE s

\* postcmd reloading the history before the instance is brought up
postcmd_reload_first(s) ==
    IF s.exc # "" THEN s ELSE
    IF s.current_instance # s.cfg_current
    THEN update_instance(preloop(clear_instance(s)), s.cfg_current)
    ELSE s

postcmd(s) ==
    IF s.exc # "" THEN s ELSE
    IF s.current_instance # s.cfg_current
    THEN preloop(update_instance(clear_instance(s), s.cfg_current))
    ELSE s

-----------------------------------------------------------------------------
(* Plugin candidates, and the loader of __init__ *)

\* what a candidate unit can be: the outcome of each step of its loading
UnitKinds == {"good", "nocomplete", "nocommands", "unimportable", "nosymbol", "noexclude",
              "nogetmethods", "excluded", "excludeRaises", "ctorRaises",
              "methodsRaise"}
FileNames == {"m1.py", "m2.py", "help.py", "notes.txt"}
ModuleNames == {"m1", "m2", "help"}
Builtins == <<"clear", "help", "history", "exit", "quit">>

\* a registry entry: the key and the pair (instance, command list); the command
\* list is None (isNone) or a list of names.  The registry is a Python dict:
\* its entries in insertion order, one per key
Descriptor(name, inst, isNone, names) ==
    [name |-> name, inst |-> inst, isNone |-> isNone, names |-> names]
\* the methods a unit's __get_methods__ enumerates
MethodsOf(kind) == IF kind = "nocommands" THEN <<>> ELSE <<"c1", "c2">>

RegKeys(reg) == {reg[i].name : i \in 1..Len(reg)}
RegHas(reg, name) == name \in RegKeys(reg)
RegGet(reg, name) == reg[CHOOSE i \in 1..Len(reg) : reg[i].name = name]
\* self.modules[name] = d: a present key keeps its place
RegSet(reg, d) ==
    IF RegHas(reg, d.name)
    THEN [i \in 1..Len(reg) |-> IF reg[i].name = d.name THEN d ELSE reg[i]]
    ELSE Append(reg, d)
RECURSIVE RegSetAll(_, _)
RegSetAll(reg, ds) == IF ds = <<>> THEN reg ELSE RegSetAll(RegSet(reg, Head(ds)), Tail(ds))

\* one pass of the loading loop of __init__, for the directory entry fname
LoadOne(s, fname) ==
    IF fname \in cwd_files \/ ~EndsWith(fname, ".py") THEN s
    ELSE LET module == SubSeq(fname, 1, Len(fname) - 3)
             kind == IF module \in DOMAIN units THEN units[module] ELSE "unimportable"
         IN
         IF fname \in skip_modules THEN s
         ELSE IF kind = "unimportable" THEN Raise(s, "ImportError")
         ELSE IF kind = "nosymbol" THEN s
         ELSE IF kind \in {"noexclude", "nogetmethods"} THEN s
         ELSE IF kind = "excludeRaises" THEN Raise(s, "PluginError")
         ELSE IF kind = "excluded" THEN s
         ELSE IF kind \in {"ctorRaises", "methodsRaise"} THEN Raise(s, "PluginError")
         ELSE Emit([s EXCEPT !.modules = RegSet(@,
                                  Descriptor(module, module, FALSE, MethodsOf(kind)))],
                   "loaded", module)

\* the loading loop: the entries in the order os.listdir gives them; an
\* exception leaves the loop and __init__
RECURSIVE LoadModules(_, _)
LoadModules(s, entries) ==
    IF entries = <<>> \/ s.exc # "" THEN s
    ELSE LoadModules(LoadOne(s, Head(entries)), Tail(entries))

RECURSIVE SetToSeq(_)
SetToSeq(S) == IF S = {} THEN <<>> ELSE LET x == CHOOSE y \in S : TRUE IN <<x>> \o SetToSeq(S \ {x})

\* os.listdir(self.modules_dir_inserted): the plugin directory, or the current
\* directory when nothing was inserted (os.listdir(None))
listdir(dir) == IF dir = None THEN SetToSeq(cwd_files) ELSE listing

\* OpenSIPSCLIShell.__init__
init_shell(s) ==
    LET instance == IF ~has_instance(options_instance) THEN DEFAULT_SECTION
                    ELSE options_instance
        s0 == IF ~has_instance(options_instance)
              THEN Emit(s, "warning", "Unknown instance") ELSE s
        s1 == [s0 EXCEPT !.cfg_current = instance,
                         !.modules_dir_inserted = None,
                         !.logger_level = IF debug THEN "DEBUG" ELSE @]
        s2 == IF ~execute
              THEN [s1 EXCEPT !.modules = RegSetAll(@,
                       [i \in 1..Len(Builtins) |->
                           Descriptor(Builtins[i], "shell", TRUE, <<>>)])]
              ELSE s1
        s3 == update_instance(s2, s2.cfg_current)
    IN  LoadModules(s3, listdir(s3.modules_dir_inserted))

-----------------------------------------------------------------------------
(* Dispatcher: run_command, default, the builtins, cmd.Cmd.onecmd *)

\* what a plugin's __invoke__ can do: return a value, raise, or be interrupted
\* by SIGINT; it may leave another instance current in the configuration
InvokeResults == {PyNone, PyInt(0), PyInt(1), PyInt(2)}
InvokeOutcomes ==
    [kind : {"return"}, value : InvokeResults, instance : Instances]
    \cup [kind : {"raise", "interrupt"}, value : {PyNone}, instance : Instances]

\* run_command answering -1 when it invokes nothing
run_command_error_status(s0, module, cmd, params, out) ==
    LET s == Emit(s0, "run_command", <<module, cmd>>) IN
    IF ~RegHas(s.modules, module)
    THEN [Emit(s, "error", "no module loaded") EXCEPT !.result = PyInt(-1)]
    ELSE LET mod == RegGet(s.modules, module) IN
         IF mod.isNone THEN Raise(s, "TypeError")
         ELSE IF cmd \notin Range(mod.names)
         THEN [Emit(s, "error", "no command in module") EXCEPT !.result = PyInt(-1)]
         ELSE LET s1 == [Emit(s, "invoke", <<module, cmd>>)
                            EXCEPT !.cfg_current = out.instance]
              IN  CASE out.kind = "return" -> [s1 EXCEPT !.result = out.value]
                    [] out.kind = "raise" -> Raise(s1, "PluginError")
                    [] out.kind = "interrupt" -> Raise(s1, "KeyboardInterrupt")

run_command(s0, module, cmd, params, out) ==
    LET s == Emit(s0, "run_command", <<module, cmd>>) IN
    IF ~RegHas(s.modules, module)
    THEN [Emit(s, "error", "no module loaded") EXCEPT !.result = PyNone]
    ELSE LET mod == RegGet(s.modules, module) IN
         \* cmd in mod[1] with mod[1] None: argument of type 'NoneType' is not iterable
         IF mod.isNone THEN Raise(s, "TypeError")
         ELSE IF cmd \notin Range(mod.names)
         THEN [Emit(s, "error", "no command in module") EXCEPT !.result = PyNone]
         ELSE LET s1 == [Emit(s, "invoke", <<module, cmd>>)
                            EXCEPT !.cfg_current = out.instance]
              IN  CASE out.kind = "return" -> [s1 EXCEPT !.result = out.value]
                    [] out.kind = "raise" -> Raise(s1, "PluginError")
                    [] out.kind = "interrupt" -> Raise(s1, "KeyboardInterrupt")

default(s, line, out) ==
    LET aux == shlex_split(line) IN
    IF ~aux.ok THEN Raise(s, "ValueError")
    ELSE IF Len(aux.toks) < 2
    THEN [Emit(s, "error", "imcomplete command") EXCEPT !.result = PyNone]
    ELSE [run_command(s, aux.toks[1], aux.toks[2], SubSeq(aux.toks, 3, Len(aux.toks)), out)
             EXCEPT !.result = PyNone]

do_history(s, line) ==
    IF line = "" THEN
        IF s.files[cfg_get(s, "history_file")].exists
        THEN Emit(s, "print", "history")
        ELSE Raise(s, "FileNotFoundError")
    ELSE s
do_help(s, line) == Emit(s, "print", "Usage:: help cmd")
do_clear(s, line) == Emit(s, "system", "clear")
do_EOF(s, line) == [Emit(s, "print", "^D") EXCEPT !.stop = TRUE]
do_quit(s, line) == [s EXCEPT !.stop = TRUE]
do_exit(s, line) == [s EXCEPT !.stop = TRUE]

\* the do_ methods getattr finds on the shell
DoMethods == {"history", "help", "clear", "EOF", "quit", "exit"}

\* cmd.Cmd.onecmd for a line that is not empty once stripped
onecmd_nonempty(s, line0, out) ==
    LET p == parseline(line0) IN
    IF p.cmd = None THEN default(s, p.line, out)
    ELSE LET s1 == [s EXCEPT !.lastcmd = IF p.line = "EOF" THEN "" ELSE p.line] IN
         IF p.cmd = "" THEN default(s1, p.line, out)
         ELSE IF p.cmd \notin DoMethods THEN default(s1, p.line, out)
         ELSE CASE p.cmd = "history" -> do_history(s1, p.arg)
                [] p.cmd = "help" -> do_help(s1, p.arg)
                [] p.cmd = "clear" -> do_clear(s1, p.arg)
                [] p.cmd = "EOF" -> do_EOF(s1, p.arg)
                [] p.cmd = "quit" -> do_quit(s1, p.arg)
                [] p.cmd = "exit" -> do_exit(s1, p.arg)

\* cmd.Cmd.emptyline, not overridden: the last command is dispatched again
emptyline(s, out) == IF s.lastcmd # "" THEN onecmd_nonempty(s, s.lastcmd, out) ELSE s

\* cmd.Cmd.onecmd
onecmd(s, line, out) ==
    IF parseline(line).line = "" THEN emptyline(s, out) ELSE onecmd_nonempty(s, line, out)

-----------------------------------------------------------------------------
(* Completion engine *)

Unset == [t |-> "unset", v |-> 0]     \* an attribute that was never assigned
CompleteOutcomes == {PyNone, PyList(<<>>), PyList(<<"x">>), PyList(<<"x", "y">>)}

\* the plugin instance has a __complete__ operation (the shell itself has none)
HasComplete(inst) == inst \in DOMAIN units /\ units[inst] # "nocomplete"

complete_modules(s, text) ==
    LET keys == [i \in 1..Len(s.modules) |-> s.modules[i].name]
        Match(a) == StartsWith(a, text)
        l == SelectSeq(keys, Match)
    IN  IF Len(l) = 1 THEN <<l[1] \o " ">> ELSE l

complete_functions(s, module, text, line, begidx, endidx, comp) ==
    LET params == str_split(line) IN
    IF Len(params) < 2 \/ (Len(params) = 2 /\ Ch(line, Len(line)) # " ") THEN
        IF module.isNone \/ Len(module.names) = 0 THEN PyList(<<"">>)
        ELSE LET Match(a) == StartsWith(a, text)
                 l == SelectSeq(module.names, Match)
             IN  PyList(IF Len(l) = 1 THEN <<l[1] \o " ">> ELSE l)
    ELSE IF ~HasComplete(module.inst) THEN PyList(<<"">>)
    ELSE IF comp.t = "None" \/ Len(comp.v) = 0 THEN PyNone
    ELSE comp

\* the try block of complete without its except clause
fetch_match_uncaught(s, state) ==
    LET cm == s.completion_matches IN
    CASE cm.t = "unset" -> Raise(s, "AttributeError")
      [] cm.t = "None" -> Raise(s, "TypeError")
      [] OTHER -> IF state < Len(cm.v) THEN [s EXCEPT !.result = PyStr(cm.v[state + 1])]
                  ELSE Raise(s, "IndexError")

\* the try block of complete: self.completion_matches[state]
fetch_match(s, state) ==
    LET cm == s.completion_matches IN
    CASE cm.t = "unset" -> Raise(s, "AttributeError")
      [] cm.t = "None" -> Raise(s, "TypeError")
      [] OTHER -> IF state < Len(cm.v) THEN [s EXCEPT !.result = PyStr(cm.v[state + 1])]
                  ELSE [s EXCEPT !.result = PyList(<<"">>)]

\* which way a request goes through index 0
complete_path(s, origline, begidx0) ==
    LET line == LStrip(origline)
        begidx == begidx0 - (Len(origline) - Len(line))
        mod == parseline(line).cmd
    IN  IF begidx <= 0 THEN "line start"
        ELSE IF mod = "" THEN "empty module"
        ELSE IF ~RegHas(s.modules, mod) THEN "unregistered"
        ELSE "module"

complete(s, text, state, origline, begidx0, endidx0, comp) ==
    IF state = 0 THEN
        LET line == LStrip(origline)
            stripped == Len(origline) - Len(line)
            begidx == begidx0 - stripped
            endidx == endidx0 - stripped
        IN  IF begidx > 0 THEN
                LET mod == parseline(line).cmd IN
                IF mod = "" THEN
                    LET l == complete_modules(s, text) IN
                    IF Len(l) > 0 THEN [s EXCEPT !.result = PyStr(l[1])]
                    ELSE Raise(s, "IndexError")
                ELSE IF ~RegHas(s.modules, mod)
                THEN fetch_match(Emit(s, "error", "BUG: mod not found"), state)
                ELSE fetch_match([s EXCEPT !.completion_matches =
                         complete_functions(s, RegGet(s.modules, mod), text, line,
                                            begidx, endidx, comp)], state)
            ELSE fetch_match([s EXCEPT !.completion_matches =
                                 PyList(complete_modules(s, text))], state)
    ELSE fetch_match(s, state)

-----------------------------------------------------------------------------
(* cmdloop *)

\* the one-shot cmdloop with the mapping of None to 0 left out
cmdloop_oneshot_raw(s, out) ==
    IF Len(command) < 1
    THEN [Emit(s, "error", "no modules to run specified") EXCEPT !.result = PyInt(-1)]
    ELSE IF Len(command) < 2
    THEN [Emit(s, "error", "no method to run specified") EXCEPT !.result = PyInt(-1)]
    ELSE run_command(s, command[1], command[2], SubSeq(command, 3, Len(command)), out)

cmdloop_oneshot(s, out) ==
    IF Len(command) < 1
    THEN [Emit(s, "error", "no modules to run specified") EXCEPT !.result = PyInt(-1)]
    ELSE IF Len(command) < 2
    THEN [Emit(s, "error", "no method to run specified") EXCEPT !.result = PyInt(-1)]
    ELSE LET s1 == run_command(s, command[1], command[2],
                               SubSeq(command, 3, Len(command)), out)
         IN  IF s1.exc # "" THEN s1
             ELSE IF s1.result.t = "None" THEN [s1 EXCEPT !.result = PyInt(0)]
             ELSE s1

\* the start of the interactive cmdloop: the intro is printed, cmd.Cmd.cmdloop
\* runs preloop and, given intro='', leaves the intro empty
cmdloop_start(s) ==
    LET s1 == preloop(Emit(s, "print", "intro")) IN [s1 EXCEPT !.intro = ""]

\* one turn of the loop of cmd.Cmd.cmdloop for a line: precmd (the identity),
\* onecmd, postcmd
loop_turn(s, line, out) == postcmd(onecmd(s, line, out))

\* input() under readline: a line that is not empty is added to the history
\* unless it repeats the newest entry
add_history(s, line) ==
    IF line # "" /\ (s.history = <<>> \/ s.history[Len(s.history)] # line)
    THEN [s EXCEPT !.history = Append(@, line)]
    ELSE s

\* the process ends: each registered termination hook runs history_write
RECURSIVE run_atexit(_, _)
run_atexit(s, n) == IF n = 0 THEN s ELSE run_atexit(history_write(s), n - 1)

-----------------------------------------------------------------------------
(* The state machine *)

LastRec(op, line, text, state, path, cands, result) ==
    [op |-> op, line |-> line, text |-> text, state |-> state, path |-> path,
     cands |-> cands, result |-> result, comp |-> Unset]
NoLast == LastRec("none", "", "", 0, "", Unset, PyNone)
NoSaved == [valid |-> FALSE, file |-> "", buffer |-> <<>>, length |-> -1, runs |-> 0]

InitialPath == <<"d2", "sys">>      \* sys.path when the process starts

\* a process before the shell is constructed
FreshProcess ==
    /\ modules = <<>>
    /\ current_instance = None
    /\ cfg_current = None
    /\ prompt = "(Cmd) "
    /\ intro = None
    /\ sys_path = InitialPath
    /\ modules_dir_inserted = None
    /\ handler = 0
    /\ comm_count = 0
    /\ logger_level = "NOTSET"
    /\ history = <<>>
    /\ history_length = -1
    /\ atexit_hooks = 0
    /\ lastcmd = ""
    /\ completion_matches = Unset
    /\ pc = "new"
    /\ ret = PyNone
    /\ events = <<>>
    /\ exc = ""
    /\ last = NoLast

InitFrom(e) ==
    /\ execute = e.execute
    /\ command = e.command
    /\ debug = e.debug
    /\ options_instance = e.options_instance
    /\ cfg_tab = e.cfg_tab
    /\ listing = e.listing
    /\ units = e.units
    /\ cwd_files = e.cwd_files
    /\ skip_modules = e.skip_modules
    /\ files = e.files
    /\ FreshProcess
    /\ nlines = 0
    /\ saved = NoSaved

\* OpenSIPSCLIShell(options)
Construct ==
    /\ pc = "new"
    /\ LET s == init_shell(St) IN
        /\ Install(s)
        /\ pc' = IF s.exc = "" THEN "constructed" ELSE "raised"
    /\ last' = LastRec("init", "", "", 0, "", Unset, PyNone)
    /\ UNCHANGED <<envvars, ret, nlines, saved>>

\* cmdloop in one-shot mode
CmdloopOneShot ==
    /\ pc = "constructed" /\ execute
    /\ \E out \in InvokeOutcomes :
        LET s == cmdloop_oneshot(St, out) IN
        /\ Install(s)
        /\ pc' = IF s.exc = "" THEN "returned" ELSE "raised"
        /\ ret' = IF s.exc = "" THEN s.result ELSE ret
        /\ last' = LastRec("oneshot", "", "", 0, "", Unset, out.value)
    /\ UNCHANGED <<envvars, nlines, saved>>

\* cmdloop in interactive mode, up to the first prompt
CmdloopStart ==
    /\ pc = "constructed" /\ ~execute
    /\ Install(cmdloop_start(St))
    /\ pc' = "loop"
    /\ last' = LastRec("start", "", "", 0, "", Unset, PyNone)
    /\ UNCHANGED <<envvars, ret, nlines, saved>>

\* the end of cmdloop answering 0 for every loop exit
AfterTurn_success(s, op, line) ==
    /\ Install(IF s.exc = "KeyboardInterrupt" THEN Emit(s, "print", "^C") ELSE s)
    /\ pc' = IF s.exc = "KeyboardInterrupt" THEN "returned"
             ELSE IF s.exc # "" THEN "raised"
             ELSE IF s.stop THEN "returned" ELSE "loop"
    /\ ret' = IF s.exc = "KeyboardInterrupt" THEN PyInt(0)
              ELSE IF s.exc = "" /\ s.stop THEN PyInt(0) ELSE ret
    /\ last' = LastRec(op, line, "", 0, "", Unset, PyNone)

\* how a turn of the loop leaves cmdloop: KeyboardInterrupt is caught (status 0),
\* any other exception propagates, a true stop ends the loop (status -1)
AfterTurn(s, op, line) ==
    /\ Install(IF s.exc = "KeyboardInterrupt" THEN Emit(s, "print", "^C") ELSE s)
    /\ pc' = IF s.exc = "KeyboardInterrupt" THEN "returned"
             ELSE IF s.exc # "" THEN "raised"
             ELSE IF s.stop THEN "returned" ELSE "loop"
    /\ ret' = IF s.exc = "KeyboardInterrupt" THEN PyInt(0)
              ELSE IF s.exc = "" /\ s.stop THEN PyInt(-1) ELSE ret
    /\ last' = LastRec(op, line, "", 0, "", Unset, PyNone)

\* the lines the operator types
Lines == {"", " ", "m1", "m1 c1", "m1 c1 a", "m1 zz", "zz c1", "\"help\" c1", "help",
          "history", "exit", "quit", "m1 \"c1"}

\* a line is read and dispatched
ReadLine ==
    /\ pc = "loop" /\ nlines < MaxLines
    /\ \E line \in Lines, out \in InvokeOutcomes :
        AfterTurn(loop_turn(add_history(St, line), line, out), "line", line)
    /\ nlines' = nlines + 1
    /\ UNCHANGED <<envvars, saved>>

\* end of input at the prompt: input() raises EOFError and the line is 'EOF'
EndOfInput ==
    /\ pc = "loop"
    /\ \E out \in InvokeOutcomes : AfterTurn(loop_turn(St, "EOF", out), "eof", "EOF")
    /\ UNCHANGED <<envvars, nlines, saved>>

\* SIGINT while input() blocks
InterruptRead ==
    /\ pc = "loop"
    /\ AfterTurn(Raise(St, "KeyboardInterrupt"), "sigint", "")
    /\ UNCHANGED <<envvars, nlines, saved>>

\* the process ends and the termination hooks run
Exit ==
    /\ pc \in {"returned", "raised"}
    /\ Install(run_atexit(St, atexit_hooks))
    /\ pc' = "exited"
    /\ saved' = IF atexit_hooks > 0
                THEN [valid |-> TRUE, file |-> cfg_get(St, "history_file"),
                      buffer |-> history, length |-> history_length, runs |-> saved.runs + 1]
                ELSE saved
    /\ last' = LastRec("exit", "", "", 0, "", Unset, PyNone)
    /\ UNCHANGED <<envvars, ret, nlines>>

\* the line buffers completion is asked for; the cursor is at the end
CompLines == {"", "h", "he", "zz", " he", "m1 ", "m1 c", "m1 z", "m1 c1 ", "m1 c1 x",
              "zz c", "help ", "help x y", "\"m1\" c", "\"m1\" z"}

\* readline's begidx: where the word under the cursor starts (after the last blank)
RECURSIVE WordStart(_, _)
WordStart(line, i) == IF i > 0 /\ Ch(line, i) # " " THEN WordStart(line, i - 1) ELSE i

\* the candidates index 0 computes for the request, stored or not
request_cands(s, s1, text, origline) ==
    LET path == complete_path(s, origline, WordStart(origline, Len(origline))) IN
    CASE path = "empty module" -> PyList(complete_modules(s, text))
      [] path = "unregistered" -> PyList(<<>>)
      [] OTHER -> s1.completion_matches

\* readline asks for the first candidate of a new request; what the completer
\* raises is dropped by readline and the loop goes on
CompleteBegin ==
    /\ pc = "loop"
    /\ \E origline \in CompLines, comp \in CompleteOutcomes :
        LET begidx0 == WordStart(origline, Len(origline))
            text == SubSeq(origline, begidx0 + 1, Len(origline))
            s == complete(St, text, 0, origline, begidx0, Len(origline), comp)
        IN  /\ Install(s)
            /\ last' = [LastRec("complete", origline, text, 0,
                                complete_path(St, origline, begidx0),
                                request_cands(St, s, text, origline), s.result)
                           EXCEPT !.comp = comp]
    /\ UNCHANGED <<envvars, pc, ret, nlines, saved>>

\* readline asks for the next candidate of the same request, as long as the
\* completer answered a string
CompleteMore ==
    /\ pc = "loop"
    /\ last.op = "complete" /\ exc = "" /\ last.result.t = "str"
    /\ last.state < MaxCompState
    /\ LET s == complete(St, last.text, last.state + 1, last.line,
                         WordStart(last.line, Len(last.line)), Len(last.line), PyNone)
       IN  /\ Install(s)
           /\ last' = [last EXCEPT !.state = @ + 1, !.result = s.result]
    /\ UNCHANGED <<envvars, pc, ret, nlines, saved>>

\* the program is started again after it ended; the history files remain
NewProcess ==
    /\ pc = "exited" /\ saved.valid /\ saved.runs < 2
    /\ Install([St EXCEPT !.modules = <<>>, !.current_instance = None,
                          !.cfg_current = None, !.prompt = "(Cmd) ", !.intro = None,
                          !.sys_path = InitialPath, !.modules_dir_inserted = None,
                          !.handler = 0, !.comm_count = 0, !.logger_level = "NOTSET",
                          !.history = <<>>, !.history_length = -1, !.atexit_hooks = 0,
                          !.lastcmd = "", !.completion_matches = Unset])
    /\ pc' = "new"
    /\ ret' = PyNone
    /\ last' = NoLast
    /\ UNCHANGED <<envvars, nlines, saved>>

-----------------------------------------------------------------------------
(* Environments *)

CfgTabs(dirs, hfiles, sizes) ==
    [Instances -> [modules_dir : dirs, history_file : hfiles, history_file_size : sizes]]
NoFile == [exists |-> FALSE, lines |-> <<>>]
OldFile == [exists |-> TRUE, lines |-> <<"old">>]
AllUnits(kinds) == [ModuleNames -> kinds]

\* listings: the entries of the plugin directory, in any order
Listings(names) ==
    {l \in UNION {[1..n -> names] : n \in 0..MaxFiles} :
        \A i, j \in 1..Len(l) : i # j => l[i] # l[j]}

EnvLoad ==
    [execute : BOOLEAN, command : {<<>>}, debug : {FALSE},
     options_instance : {"default", "nosuch"},
     cfg_tab : CfgTabs({"d1"}, {"f1"}, {1}) \cup CfgTabs({"nodir"}, {"f1"}, {1}),
     listing : Listings(FileNames),
     units : {u \in AllUnits(UnitKinds) : u["help"] = "good"},
     cwd_files : {{}, {"m2.py"}},
     skip_modules : {{}, {"m2.py"}},
     files : {[f \in HistoryFiles |-> NoFile]}]

InitLoad == \E e \in EnvLoad : InitFrom(e)
NextLoad == Construct
SpecLoad == InitLoad /\ [][NextLoad]_vars

OneShotCommands == {<<>>, <<"m1">>, <<"m1", "c1">>, <<"m1", "c1", "a">>, <<"m1", "zz">>,
                    <<"zz", "c1">>, <<"help", "c1">>}

EnvOneShot ==
    [execute : {TRUE}, command : OneShotCommands, debug : {FALSE},
     options_instance : {"default"},
     cfg_tab : CfgTabs({"d1"}, {"f1"}, {1}),
     listing : {<<>>, <<"m1.py">>, <<"help.py", "m1.py">>},
     units : AllUnits({"good", "nocommands"}),
     cwd_files : {{}},
     skip_modules : {{}},
     files : {[f \in HistoryFiles |-> NoFile]}]

InitOneShot == \E e \in EnvOneShot : InitFrom(e)
NextOneShot == Construct \/ CmdloopOneShot \/ Exit
SpecOneShot == InitOneShot /\ [][NextOneShot]_vars

EnvShell ==
    [execute : {FALSE}, command : {<<>>}, debug : {FALSE},
     options_instance : {"default"},
     cfg_tab : CfgTabs({"d1"}, {"f1"}, {1}),
     listing : {<<>>, <<"m1.py">>},
     units : AllUnits({"good"}) \cup AllUnits({"nocommands"}),
     cwd_files : {{}},
     skip_modules : {{}},
     files : {[f \in HistoryFiles |-> NoFile], [f \in HistoryFiles |-> OldFile]}]

Init == \E e \in EnvShell : InitFrom(e)
Next == Construct \/ CmdloopStart \/ ReadLine \/ EndOfInput \/ InterruptRead \/ Exit
Spec == Init /\ [][Next]_vars

\* configurations whose instances differ in plugin directory and history file
EnvSwitch ==
    [execute : {FALSE}, command : {<<>>}, debug : {FALSE},
     options_instance : {"default"},
     cfg_tab : {c \in CfgTabs(ModuleDirs, HistoryFiles, 1..MaxHistSize) :
                   /\ c["default"].history_file = "f1"
                   /\ c["default"].history_file_size = 1},
     listing : {<<"m1.py">>},
     units : AllUnits({"good"}),
     cwd_files : {{}},
     skip_modules : {{}},
     files : {[f \in HistoryFiles |-> NoFile]}]

InitSwitch == \E e \in EnvSwitch : InitFrom(e)
SpecSwitch == InitSwitch /\ [][Next]_vars

EnvComplete ==
    [execute : {FALSE}, command : {<<>>}, debug : {FALSE},
     options_instance : {"default"},
     cfg_tab : CfgTabs({"d1"}, {"f1"}, {1}),
     listing : {<<>>, <<"m1.py">>},
     units : AllUnits({"good"}) \cup AllUnits({"nocomplete"}) \cup AllUnits({"nocommands"}),
     cwd_files : {{}},
     skip_modules : {{}},
     files : {[f \in HistoryFiles |-> NoFile]}]

InitComplete == \E e \in EnvComplete : InitFrom(e)
NextComplete == Construct \/ CmdloopStart \/ CompleteBegin \/ CompleteMore
SpecComplete == InitComplete /\ [][NextComplete]_vars

\* configurations whose instances differ in history_file_size; the process may
\* be started a second time
EnvHistory ==
    [execute : {FALSE}, command : {<<>>}, debug : {FALSE},
     options_instance : {"default"},
     cfg_tab : CfgTabs({"d1"}, {"f1"}, 1..MaxHistSize),
     listing : {<<"m1.py">>},
     units : AllUnits({"good"}),
     cwd_files : {{}},
     skip_modules : {{}},
     files : {[f \in HistoryFiles |-> NoFile]}]

InitHistory == \E e \in EnvHistory : InitFrom(e)
NextHistory == Next \/ NewProcess
SpecHistory == InitHistory /\ [][NextHistory]_vars

\* dispatches, completion requests and instance switches in one run; completion
\* is requested while the first line is typed, and the list it stores stays
\* through the dispatches and switches that follow
EnvRegistry ==
    [execute : {FALSE}, command : {<<>>}, debug : {FALSE},
     options_instance : {"default"},
     cfg_tab : {c \in CfgTabs(ModuleDirs, {"f1"}, {1}) : c["default"].modules_dir = "d1"},
     listing : {<<"m1.py">>},
     units : AllUnits({"good"}),
     cwd_files : {{}},
     skip_modules : {{}},
     files : {[f \in HistoryFiles |-> NoFile]}]

InitRegistry == \E e \in EnvRegistry : InitFrom(e)
NextRegistry == Next \/ (nlines = 0 /\ (CompleteBegin \/ CompleteMore))
SpecRegistry == InitRegistry /\ [][NextRegistry]_vars

-----------------------------------------------------------------------------
(* What the last handler did *)

NEvents(kind) == Cardinality({i \in DOMAIN events : events[i].e = kind})
NErrors == NEvents("error")
NInvoked == NEvents("invoke")
NDispatched == NEvents("run_command")
NErrorsOf(text) ==
    Cardinality({i \in DOMAIN events : events[i].e = "error" /\ events[i].a = text})
\* the command names a registry entry accepts; None holds none
CommandSet(d) == IF d.isNone THEN {} ELSE Range(d.names)
LastCmd == parseline(last.line).cmd

-----------------------------------------------------------------------------
(* C1: in one-shot mode cmdloop answers -1, with one diagnostic and without
   dispatching, when the command tuple has fewer than two entries; otherwise it
   dispatches exactly once and answers 0 for a dispatch result None and the
   dispatch result itself otherwise. *)
C1_OneShotStatus ==
    last.op = "oneshot" =>
        IF Len(command) < 2
        THEN pc = "returned" /\ ret = PyInt(-1) /\ NErrors = 1
             /\ NDispatched = 0 /\ NInvoked = 0
        ELSE /\ NDispatched = 1
             /\ NInvoked <= 1
             /\ pc = "returned" =>
                    ret = IF NInvoked = 0 \/ last.result.t = "None" THEN PyInt(0)
                          ELSE last.result

C1_Witness ==
    last.op = "oneshot" /\ pc = "returned" /\ NInvoked = 1 /\ ret = PyInt(2)

(* C2: a dispatch to an unregistered module, or to a registered module (its
   command set None or empty included) with a command outside its command set,
   emits exactly one diagnostic, invokes nothing and returns normally. *)
C2_DispatchErrorDiagnosed ==
    \A i \in DOMAIN events :
        events[i].e = "run_command" =>
            LET m == events[i].a[1]
                c == events[i].a[2]
            IN  (~RegHas(modules, m) \/ c \notin CommandSet(RegGet(modules, m)))
                    => (NErrors = 1 /\ NInvoked = 0 /\ exc = "")

(* C3: in the interactive loop a line that is no builtin and splits into fewer
   than two tokens (the empty line included) produces the incomplete-command
   diagnostic and invokes no plugin. *)
C3_ShortLineDiagnosed ==
    (/\ last.op = "line"
     /\ LastCmd \notin DoMethods
     /\ shlex_split(last.line).ok
     /\ Len(shlex_split(last.line).toks) < 2)
        => (NErrorsOf("imcomplete command") = 1 /\ NInvoked = 0)

(* C4, as claimed: exit, quit and end-of-input end the interactive loop and
   cmdloop returns 0. *)
C4_ExitReturnsSuccess ==
    (last.op \in {"line", "eof"} /\ LastCmd \in {"exit", "quit", "EOF"})
        => (pc = "returned" /\ ret = PyInt(0))

(* C4, amended: exit, quit and end-of-input end the interactive loop, whatever
   plugins are loaded, and cmdloop returns -1, the status of every loop exit
   that is not an interrupt. *)
C4_ExitReturnsMinusOne ==
    (last.op \in {"line", "eof"} /\ LastCmd \in {"exit", "quit", "EOF"})
        => (pc = "returned" /\ exc = "" /\ ret = PyInt(-1))

C4_Witness ==
    /\ last.op = "line" /\ last.line = "quit" /\ pc = "returned" /\ ret = PyInt(-1)
    /\ RegHas(modules, "m1")

(* C5: after a dispatch-time error in the interactive loop (malformed input
   such as an unbalanced quote, fewer than two tokens, an unknown module, a
   command outside the command list of a module) the loop is still running and
   no exception left it.  The entries whose command set is None are left to C2. *)
DispatchTimeError(line) ==
    LET sp == shlex_split(line) IN
    /\ parseline(line).cmd \notin DoMethods
    /\ Strip(line) # ""
    /\ \/ ~sp.ok
       \/ Len(sp.toks) < 2
       \/ ~RegHas(modules, sp.toks[1])
       \/ (~RegGet(modules, sp.toks[1]).isNone
           /\ sp.toks[2] \notin Range(RegGet(modules, sp.toks[1]).names))
C5_DispatchErrorsNonFatal ==
    (last.op = "line" /\ DispatchTimeError(last.line)) => (pc = "loop" /\ exc = "")

(* C6: when a dispatch of the interactive loop leaves another instance B current
   in the configuration and the loop goes on, then before the next line the
   cached instance is B, prompt and intro are B's, the search-path entry
   inserted for the outgoing instance has been taken out (the path is the old
   one without it, with at most the entry inserted for B in front) and the
   handler comes from a comm.initialize() call made after the change. *)
C6_SwitchRefreshes ==
    [][(pc = "loop" /\ pc' = "loop" /\ cfg_current' # cfg_current) =>
        LET B == [cfg_current |-> cfg_current']
            dirB == cfg_get(B, "modules_dir")
            without == IF modules_dir_inserted # None
                       THEN RemoveFirst(sys_path, modules_dir_inserted) ELSE sys_path
        IN  /\ current_instance' = cfg_current'
            /\ prompt' = "(" \o cfg_get(B, "prompt_name") \o "): "
            /\ intro' = cfg_get(B, "prompt_intro")
            /\ modules_dir_inserted # None => modules_dir_inserted \notin Range(without)
            /\ \/ sys_path' = without /\ modules_dir_inserted' = None
               \/ sys_path' = <<dirB>> \o without /\ modules_dir_inserted' = dirB
            /\ handler' > comm_count /\ handler' = comm_count'
      ]_vars

C6_Witness ==
    /\ pc = "loop" /\ current_instance = "B" /\ handler = 2
    /\ cfg_tab["default"].modules_dir = "d1" /\ "d1" \notin Range(sys_path)
    /\ prompt = "(cli-B): " /\ intro = "Welcome to B"

(* C7, as claimed: a completion request for an index at or beyond the number of
   candidates of the current request raises an out-of-range condition. *)
NCands == IF last.cands.t = "list" THEN Len(last.cands.v) ELSE 0
C7_OutOfRangeRaises ==
    (last.op = "complete" /\ last.state >= NCands) => exc = "IndexError"

(* C7, amended: a completion request for an index at or beyond the number of
   candidates stored for the current request (cursor at line start, or a
   recognised module whose candidates are a list) raises nothing: the
   out-of-range condition is caught and the one-element list [''] is returned.
   An out-of-range condition escapes only at index 0 on the empty-module-token
   path, when no module name matches. *)
C7_OutOfRangeReturnsEmptyItem ==
    last.op = "complete" =>
        /\ (last.state >= NCands /\ last.cands.t = "list"
            /\ last.path \in {"line start", "module"})
              => (exc = "" /\ last.result.t = "list" /\ last.result.v = <<"">>)
        /\ (last.state >= NCands /\ last.path = "empty module" /\ last.state = 0)
              => exc = "IndexError"
        /\ exc = "IndexError" => (last.path = "empty module" /\ last.state = 0)

C7_Witness ==
    /\ last.op = "complete" /\ last.path = "module" /\ last.state = 2 /\ NCands = 2
    /\ last.result.t = "list"

(* C8: a buffer of N lines written by history_write (under the configured
   history_file_size) and reloaded by preloop into the empty buffer of a new
   process gives the same N lines in order when N <= history_file_size, and the
   newest history_file_size lines, in order, when N is larger. *)
C8_HistoryRoundTrip ==
    (/\ last.op = "start" /\ saved.valid
     /\ saved.file = cfg_get(St, "history_file")
     /\ saved.length = cfg_get(St, "history_file_size"))
        => LET N == Len(saved.buffer)
               size == cfg_get(St, "history_file_size")
           IN  IF N <= size THEN history = saved.buffer
               ELSE history = SubSeq(saved.buffer, N - size + 1, N)

C8_Witness ==
    /\ last.op = "start" /\ saved.valid
    /\ saved.file = cfg_get(St, "history_file")
    /\ saved.length = cfg_get(St, "history_file_size")
    /\ Len(saved.buffer) > cfg_get(St, "history_file_size")
    /\ Len(history) = cfg_get(St, "history_file_size")

(* C9: during the startup load the failure of a single candidate registers
   nothing for it and does not abort the load: the constructor completes and
   every valid candidate of the directory is registered, in any order. *)
ValidCandidate(fname) ==
    /\ EndsWith(fname, ".py") /\ fname \notin cwd_files /\ fname \notin skip_modules
    /\ units[SubSeq(fname, 1, Len(fname) - 3)] \in {"good", "nocomplete", "nocommands"}
Registered(fname) ==
    LET module == SubSeq(fname, 1, Len(fname) - 3) IN
    RegHas(modules, module) /\ RegGet(modules, module).inst = module
C9_LoadFailureIsolated ==
    last.op = "init" =>
        /\ pc = "constructed"
        /\ \A i \in 1..Len(listdir(modules_dir_inserted)) :
              LET fname == listdir(modules_dir_inserted)[i] IN
              EndsWith(fname, ".py") => (Registered(fname) <=> ValidCandidate(fname))

(* C10: over a run of the interactive loop, with any number of instance
   switches, history_write is registered as termination hook exactly once. *)
C10_AtexitRegisteredOnce ==
    pc = "loop" => atexit_hooks = 1

(* C11: the candidate a completion request returns at an index i > 0 is the
   i-th element of the candidate list index 0 of that same request computed,
   whichever way the request went through index 0; a list left by an earlier
   request is never replayed. *)
C11_ReplaysOwnRequest ==
    (last.op = "complete" /\ last.state > 0 /\ last.result.t = "str") =>
        /\ last.cands.t = "list"
        /\ last.state < Len(last.cands.v)
        /\ last.result.v = last.cands.v[last.state + 1]

(* C12: a completion request at index 0 with the cursor past the line start and
   a module token that is not registered emits the diagnostic and returns no
   candidate, whatever earlier requests produced. *)
C12_UnregisteredNoCandidates ==
    (last.op = "complete" /\ last.state = 0 /\ last.path = "unregistered") =>
        /\ NErrorsOf("BUG: mod not found") = 1
        /\ last.result.t # "str"

(* C13: when a command argument of a recognised module is completed, the
   request does not fail; the candidates are the list the module's completion
   operation produced, and there is no candidate at all (not the single
   candidate '') when the module has no completion operation or the operation
   answers that it has no suggestions. *)
ArgumentCase(origline) ==
    LET line == LStrip(origline)
        params == str_split(line)
    IN  ~(Len(params) < 2 \/ (Len(params) = 2 /\ Ch(line, Len(line)) # " "))
C13_ArgumentCandidates ==
    (/\ last.op = "complete" /\ last.state = 0 /\ last.path = "module"
     /\ ArgumentCase(last.line))
        => /\ exc = ""
           /\ IF /\ HasComplete(RegGet(modules, parseline(LStrip(last.line)).cmd).inst)
                 /\ last.comp.t = "list" /\ Len(last.comp.v) > 0
              THEN last.cands = last.comp /\ last.result = PyStr(last.comp.v[1])
              ELSE last.result.t # "str"

(* C14: on every instance switch the steps happen in this order: history
   flush, removal of the outgoing search-path entry (when one was inserted),
   log-level recomputation, prompt/intro refresh, insertion of the new plugin
   directory (or the warning that it does not exist, or nothing when it is in
   the path already), request of a fresh handler, history reload (the file
   existing). *)
SwitchKinds == {"history_write", "path_remove", "set_level", "prompt", "path_insert",
                "warning", "comm_initialize", "read_history"}
SwitchSteps(ev) ==
    LET IsStep(x) == x.e \in SwitchKinds
        sw == SelectSeq(ev, IsStep)
    IN  [i \in 1..Len(sw) |-> sw[i].e]
C14_SwitchOrder ==
    [][(pc = "loop" /\ current_instance' # current_instance) =>
        LET dirB == cfg_tab[cfg_current'].modules_dir
            fileB == cfg_tab[cfg_current'].history_file
            teardown == IF modules_dir_inserted # None THEN <<"path_remove">> ELSE <<>>
            insertion == IF dirB \notin ExistingDirs THEN <<"warning">>
                         ELSE IF modules_dir_inserted' = dirB THEN <<"path_insert">>
                         ELSE <<>>
            reload == IF files'[fileB].exists THEN <<"read_history">> ELSE <<>>
        IN  SwitchSteps(events') =
                <<"history_write">> \o teardown \o <<"set_level", "prompt">> \o insertion
                    \o <<"comm_initialize">> \o reload
      ]_vars

C14_Witness ==
    /\ pc = "loop" /\ last.op = "line" /\ current_instance = "B"
    /\ SwitchSteps(events) = <<"history_write", "path_remove", "set_level", "prompt",
                               "path_insert", "comm_initialize", "read_history">>

(* C15: on a switch from A to B whose configurations name different history
   files, the flush of the switch writes the history file configured for the
   outgoing instance A and leaves B's history file as it was. *)
C15_FlushWritesOutgoingFile ==
    [][(/\ pc = "loop" /\ current_instance' # current_instance
        /\ cfg_tab[current_instance].history_file # cfg_tab[current_instance'].history_file)
        => /\ \E i \in DOMAIN events' :
                 /\ events'[i].e = "history_write"
                 /\ events'[i].a = cfg_tab[current_instance].history_file
           /\ files'[cfg_tab[current_instance'].history_file]
                 = files[cfg_tab[current_instance'].history_file]
      ]_vars

(* C16: an interrupt that arrives while a plugin invocation is in flight does
   not cancel the invocation and does not end the interactive loop; only an
   interrupt during the blocking read ends the loop, with status 0. *)
C16_InterruptInFlight ==
    /\ (last.op = "line" /\ NInvoked = 1)
          => (exc # "KeyboardInterrupt" /\ ~(pc = "returned" /\ ret = PyInt(0)))
    /\ (pc = "returned" /\ ret = PyInt(0)) => last.op = "sigint"

(* C17: in every state after the shell is constructed, in interactive and in
   one-shot mode and whatever the plugin directory holds, the registry has the
   entries clear, help, history, exit and quit, each mapped to the shell with
   None as command set. *)
C17_BuiltinsAlwaysRegistered ==
    pc \in {"constructed", "loop", "returned"} =>
        \A i \in 1..Len(Builtins) :
            /\ RegHas(modules, Builtins[i])
            /\ RegGet(modules, Builtins[i]) = Descriptor(Builtins[i], "shell", TRUE, <<>>)

(* C18: once the startup load has finished, no operation changes the registry:
   no dispatch, completion request or instance switch adds, removes or replaces
   an entry, also when the new instance configures another plugin directory. *)
C18_RegistryFrozen ==
    [][pc # "new" => modules' = modules]_vars

C18_Witness ==
    /\ pc = "loop" /\ last.op = "line" /\ current_instance = "B" /\ NInvoked = 1
    /\ completion_matches.t = "list"
    /\ cfg_tab["B"].modules_dir # cfg_tab["default"].modules_dir
    /\ RegHas(modules, "m1") /\ Len(modules) = Len(Builtins) + 1

(* C19: after any sequence of instance switches the search-path marker is None
   or a directory the shell inserted that is still in the search path; the
   path holds at most one entry inserted by the shell, in front of the entries
   it had before, none of which is ever removed. *)
C19_PathMarker ==
    IF modules_dir_inserted = None THEN sys_path = InitialPath
    ELSE /\ modules_dir_inserted \notin Range(InitialPath)
         /\ sys_path = <<modules_dir_inserted>> \o InitialPath

C19_Witness ==
    /\ pc = "loop" /\ handler = 3 /\ current_instance = "default"
    /\ modules_dir_inserted = "d1" /\ cfg_tab["B"].modules_dir = "d2"

(* C20: in one-shot mode a dispatch that invokes nothing, the module not being
   registered or the command not being in the module's command set, gives
   status 0 after one diagnostic, the status of an invocation that returns
   None. *)
C20_DispatchErrorStatusZero ==
    (last.op = "oneshot" /\ Len(command) >= 2) =>
        /\ (~RegHas(modules, command[1])
              \/ command[2] \notin CommandSet(RegGet(modules, command[1])))
              => (pc = "returned" /\ ret = PyInt(0) /\ NInvoked = 0 /\ NErrors = 1)
        /\ (NInvoked = 1 /\ pc = "returned" /\ last.result.t = "None")
              => (ret = PyInt(0) /\ NErrors = 0)

C20_Witness ==
    /\ last.op = "oneshot" /\ command = <<"m1", "zz">> /\ RegHas(modules, "m1")
    /\ pc = "returned" /\ ret = PyInt(0) /\ NErrors = 1

====
